---- MODULE Spec2Model ----
(***************************************************************************)
(* ProjectPlan of the logical planner (Init, BuildExplainInfo,             *)
(* PruneColumns) as a state machine over one plan node and the leaf below  *)
(* it.  Spec runs construction, explanation and pruning; SpecInit runs     *)
(* construction and explanation over the wider set of field lists.         *)
(* SpecQueue runs the ringqueue of the function binder.                    *)
(***************************************************************************)
EXTENDS Integers, Sequences, FiniteSets, TLC

\* Longest field list given to a plan.
MaxFields == 3
\* Longest requirement list handed to PruneColumns by the caller.
MaxReq == 1
\* Largest size a ring queue is created with.
MaxSize == 3

Range(s) == {s[i] : i \in 1..Len(s)}

(***************************************************************************)
(* ast: the node shapes ProjectPlan reads.                                 *)
(***************************************************************************)
\* a nil ast.Expr
NilExpr == [kind |-> "nil"]

\* *ast.FieldRef: Name and StreamName
FieldRef(name, stream) == [kind |-> "FieldRef", Name |-> name, StreamName |-> stream]

\* *ast.Wildcard: Except ([]string) and Replace ([]ast.Field)
Wildcard(except, replace) == [kind |-> "Wildcard", Except |-> except, Replace |-> replace]

\* any other expression: a function call over argument expressions
Call(name, args) == [kind |-> "Call", Name |-> name, Args |-> args]

\* ast.Field: AName, Expr, Invisible
Field(aname, expr, invisible) == [AName |-> aname, Expr |-> expr, Invisible |-> invisible]

UpperA == Call("UPPER", <<FieldRef("a", "")>>)
UpperB == Call("UPPER", <<FieldRef("b", "")>>)

\* The fields a statement's field list is drawn from.
FieldUniverse ==
    { Field("", FieldRef("a", ""), FALSE),
      Field("", FieldRef("b", ""), FALSE),
      Field("", FieldRef("c", ""), FALSE),
      Field("", FieldRef("a", ""), TRUE),
      Field("", FieldRef("a", "t1"), FALSE),
      Field("c", FieldRef("b", ""), FALSE),
      Field("u", UpperA, FALSE),
      Field("", UpperA, FALSE),
      Field("", NilExpr, FALSE),
      Field("", Wildcard(<<>>, <<>>), FALSE),
      Field("", Wildcard(<<"secret">>, <<>>), FALSE),
      Field("", Wildcard(<<>>, <<Field("b", UpperB, FALSE)>>), FALSE),
      Field("w", Wildcard(<<"secret">>, <<>>), FALSE),
      Field("", FieldRef("*", "t1"), FALSE),
      Field("x", FieldRef("*", "t1"), FALSE) }

\* The fields of the plans that are pruned: one field for each shape of
\* reference PruneColumns can meet in p.fields.
PrunedUniverse ==
    { Field("", FieldRef("a", ""), FALSE),
      Field("", FieldRef("b", ""), FALSE),
      Field("", FieldRef("c", ""), FALSE),
      Field("u", UpperA, FALSE),
      Field("", NilExpr, FALSE),
      Field("", Wildcard(<<>>, <<>>), FALSE),
      Field("", Wildcard(<<"secret">>, <<>>), FALSE),
      Field("", Wildcard(<<>>, <<Field("b", UpperB, FALSE)>>), FALSE),
      Field("", FieldRef("*", "t1"), FALSE) }

SeqsUpTo(S, n) == UNION {[1..k -> S] : k \in 0..n}

FieldLists == SeqsUpTo(FieldUniverse, MaxFields)

PrunedFieldLists == SeqsUpTo(PrunedUniverse, MaxFields)

\* The column references an ancestor may require.
ReqUniverse == {FieldRef("b", ""), FieldRef("z", "")}

ReqLists == SeqsUpTo(ReqUniverse, MaxReq)

(***************************************************************************)
(* ProjectPlan.Init                                                        *)
(***************************************************************************)
\* The classification of an unaliased field by its expression.
ByExpr(p, field) ==
    CASE field.Expr.kind = "Wildcard" ->
            [p EXCEPT !.allWildcard = TRUE,
                      !.exceptNames = field.Expr.Except,
                      !.aliasFields = @ \o field.Expr.Replace]
      [] field.Expr.kind = "FieldRef" ->
            IF field.Expr.Name = "*"
            THEN [p EXCEPT !.wildcardEmitters = (field.Expr.StreamName :> TRUE) @@ @]
            ELSE IF ~field.Invisible
                 THEN [p EXCEPT !.colNames =
                                    Append(@, <<field.Expr.Name, field.Expr.StreamName>>)]
                 ELSE p
      [] OTHER -> [p EXCEPT !.exprFields = Append(@, field)]

\* InitField without the else: an aliased field is classified by its expression too.
InitFieldNoElse(p, field) ==
    IF field.AName # ""
    THEN ByExpr([p EXCEPT !.aliasFields = Append(@, field)], field)
    ELSE ByExpr(p, field)

\* InitField testing the alias only after the column branch.
InitFieldColumnFirst(p, field) ==
    IF field.Expr.kind = "FieldRef" /\ field.Expr.Name # "*" /\ ~field.Invisible
    THEN ByExpr(p, field)
    ELSE IF field.AName # ""
         THEN [p EXCEPT !.aliasFields = Append(@, field)]
         ELSE ByExpr(p, field)

\* InitField sending an invisible column to the default branch.
InitFieldInvisibleAsExpr(p, field) ==
    IF field.AName = "" /\ field.Expr.kind = "FieldRef" /\ field.Expr.Name # "*"
       /\ field.Invisible
    THEN [p EXCEPT !.exprFields = Append(@, field)]
    ELSE IF field.AName # ""
         THEN [p EXCEPT !.aliasFields = Append(@, field)]
         ELSE ByExpr(p, field)

\* InitField appending each wildcard's EXCEPT list instead of assigning it.
InitFieldExceptAppended(p, field) ==
    IF field.AName = "" /\ field.Expr.kind = "Wildcard"
    THEN [p EXCEPT !.allWildcard = TRUE,
                   !.exceptNames = @ \o field.Expr.Except,
                   !.aliasFields = @ \o field.Expr.Replace]
    ELSE IF field.AName # ""
         THEN [p EXCEPT !.aliasFields = Append(@, field)]
         ELSE ByExpr(p, field)

\* InitField without the test of Invisible.
InitFieldInvisibleKept(p, field) ==
    IF field.AName = "" /\ field.Expr.kind = "FieldRef" /\ field.Expr.Name # "*"
    THEN [p EXCEPT !.colNames = Append(@, <<field.Expr.Name, field.Expr.StreamName>>)]
    ELSE IF field.AName # ""
         THEN [p EXCEPT !.aliasFields = Append(@, field)]
         ELSE ByExpr(p, field)

\* One iteration of the loop over p.fields: the classification of `field`.
InitField(p, field) ==
    IF field.AName # ""
    THEN [p EXCEPT !.aliasFields = Append(@, field)]
    ELSE CASE field.Expr.kind = "Wildcard" ->
                [p EXCEPT !.allWildcard = TRUE,
                          !.exceptNames = field.Expr.Except,
                          !.aliasFields = @ \o field.Expr.Replace]
           [] field.Expr.kind = "FieldRef" ->
                IF field.Expr.Name = "*"
                THEN [p EXCEPT !.wildcardEmitters =
                                   (field.Expr.StreamName :> TRUE) @@ @]
                ELSE IF ~field.Invisible
                     THEN [p EXCEPT !.colNames =
                                        Append(@, <<field.Expr.Name, field.Expr.StreamName>>)]
                     ELSE p
           [] OTHER -> [p EXCEPT !.exprFields = Append(@, field)]

\* The loop `for _, field := range p.fields`, over the list fs.
RECURSIVE InitFields(_, _)
InitFields(p, fs) ==
    IF fs = <<>> THEN p
    ELSE InitFields(InitField(p, Head(fs)), Tail(fs))

\* The plan Init returns: a copy of the receiver, classified and typed.
InitResult(p) ==
    [InitFields([p EXCEPT !.allWildcard = FALSE, !.wildcardEmitters = <<>>], p.fields)
        EXCEPT !.planType = "PROJECT"]

(***************************************************************************)
(* ProjectPlan.BuildExplainInfo                                            *)
(***************************************************************************)
RECURSIVE ExprString(_)
RECURSIVE ArgsString(_)
\* ast.Expr.String(): the textual form of an expression.
ExprString(e) ==
    CASE e.kind = "FieldRef" ->
            IF e.StreamName = "" THEN e.Name ELSE e.StreamName \o "." \o e.Name
      [] e.kind = "Wildcard" -> "*"
      [] e.kind = "Call" -> e.Name \o "(" \o ArgsString(e.Args) \o ")"
      [] OTHER -> ""

ArgsString(args) ==
    IF args = <<>> THEN ""
    ELSE ExprString(Head(args)) \o
         (IF Len(args) > 1 THEN "," ELSE "") \o ArgsString(Tail(args))

\* strconv.Itoa
Itoa(n) == ToString(n)

\* The loop body over p.fields from index i on: what it adds to info.
RECURSIVE ExplainFields(_, _)
ExplainFields(fs, i) ==
    IF i > Len(fs) THEN ""
    ELSE (IF fs[i].Expr # NilExpr
          THEN ExprString(fs[i].Expr) \o (IF i # Len(fs) THEN ", " ELSE "")
          ELSE "")
         \o ExplainFields(fs, i + 1)

\* The string BuildExplainInfo stores in ExplainInfo.Info.
ExplainInfo(p) ==
    (IF Len(p.fields) # 0
     THEN "Fields:[ " \o ExplainFields(p.fields, 1) \o " ]"
     ELSE "")
    \o (IF p.enableLimit THEN ", Limit:" \o Itoa(p.limitCount) ELSE "")

(***************************************************************************)
(* ProjectPlan.PruneColumns                                                *)
(***************************************************************************)
RECURSIVE ExprRefs(_)
RECURSIVE ExprsRefs(_)
RECURSIVE FieldsRefs(_)
\* The walk of getFields over one expression: the field references and
\* wildcards it meets, in order.
ExprRefs(e) ==
    CASE e.kind = "FieldRef" -> <<e>>
      [] e.kind = "Wildcard" -> <<e>> \o FieldsRefs(e.Replace)
      [] e.kind = "Call" -> ExprsRefs(e.Args)
      [] OTHER -> <<>>

ExprsRefs(es) ==
    IF es = <<>> THEN <<>> ELSE ExprRefs(Head(es)) \o ExprsRefs(Tail(es))

FieldsRefs(fs) ==
    IF fs = <<>> THEN <<>> ELSE ExprRefs(Head(fs).Expr) \o FieldsRefs(Tail(fs))

\* getFields(p.fields)
getFields(fs) == FieldsRefs(fs)

\* A child plan's PruneColumns: a leaf that knows its columns `cols`.
\* The first required column it cannot produce, or "" when there is none.
RECURSIVE FirstMissing(_, _)
FirstMissing(cols, req) ==
    IF req = <<>> THEN ""
    ELSE IF /\ Head(req).kind = "FieldRef"
            /\ Head(req).Name # "*"
            /\ Head(req).Name \notin cols
         THEN Head(req).Name
         ELSE FirstMissing(cols, Tail(req))

ChildError(child, req) ==
    IF FirstMissing(child.cols, req) = "" THEN ""
    ELSE "column not found: " \o FirstMissing(child.cols, req)

\* The child after its PruneColumns(req): the columns it keeps.
ChildPruned(child, req) ==
    IF ChildError(child, req) # "" THEN child
    ELSE IF \E i \in 1..Len(req) :
               req[i].kind = "Wildcard" \/ (req[i].kind = "FieldRef" /\ req[i].Name = "*")
         THEN [child EXCEPT !.kept = child.cols]
         ELSE [child EXCEPT !.kept = {c \in child.cols :
                                        \E i \in 1..Len(req) :
                                           req[i].kind = "FieldRef" /\ req[i].Name = c}]

\* baseLogicalPlan.PruneColumns: each child in turn, stopping at the first error.
RECURSIVE BasePrune(_, _)
BasePrune(children, req) ==
    IF children = <<>> THEN [children |-> <<>>, err |-> ""]
    ELSE IF ChildError(Head(children), req) # ""
         THEN [children |-> children, err |-> ChildError(Head(children), req)]
         ELSE LET rest == BasePrune(Tail(children), req)
              IN  [children |-> <<ChildPruned(Head(children), req)>> \o rest.children,
                   err |-> rest.err]

\* Forwarding the caller's list alone.
ForwardedOnlyRequired(p, fields) == fields

\* Forwarding the plan's own references alone.
ForwardedOnlyOwn(p, fields) == getFields(p.fields)

\* Forwarding the references of the classified lists instead of p.fields.
ForwardedClassified(p, fields) ==
    fields \o [i \in 1..Len(p.colNames) |-> FieldRef(p.colNames[i][1], p.colNames[i][2])]
           \o getFields(p.aliasFields) \o getFields(p.exprFields)

\* The list ProjectPlan.PruneColumns hands to baseLogicalPlan.PruneColumns.
Forwarded(p, fields) == fields \o getFields(p.fields)

(***************************************************************************)
(* ringqueue                                                               *)
(***************************************************************************)
\* A nil interface value.
Nil == "nil"

\* The items callers put in a queue.
Items == {"x", "y"}

\* newRingqueue(size): Data holds size nil entries, indexed from 0.
newRingqueue(size) ==
    [Data |-> [i \in 0..(size - 1) |-> Nil], H |-> 0, T |-> 0, L |-> 0, Size |-> size]

\* append leaving T at Size instead of wrapping it to 0.
appendNoWrap(q, item) ==
    IF q.L = q.Size
    THEN [q |-> q, ok |-> FALSE]
    ELSE [q |-> [q EXCEPT !.Data = [@ EXCEPT ![q.T] = item],
                          !.T = q.T + 1,
                          !.L = q.L + 1],
          ok |-> TRUE]

\* p.append(item): the queue after the call and the value returned.
append(q, item) ==
    IF q.L = q.Size
    THEN [q |-> q, ok |-> FALSE]
    ELSE [q |-> [q EXCEPT !.Data = [@ EXCEPT ![q.T] = item],
                          !.T = IF q.T + 1 = q.Size THEN 0 ELSE q.T + 1,
                          !.L = q.L + 1],
          ok |-> TRUE]

\* fetch reading Data[H] after it has advanced H.
fetchAfterAdvance(q) ==
    IF q.L = 0
    THEN [q |-> q, val |-> Nil, ok |-> FALSE]
    ELSE LET h == IF q.H + 1 = q.Size THEN 0 ELSE q.H + 1
         IN  [q |-> [q EXCEPT !.H = h, !.L = q.L - 1], val |-> q.Data[h], ok |-> TRUE]

\* p.fetch(): the queue after the call and the values returned.
fetch(q) ==
    IF q.L = 0
    THEN [q |-> q, val |-> Nil, ok |-> FALSE]
    ELSE [q |-> [q EXCEPT !.H = IF q.H + 1 = q.Size THEN 0 ELSE q.H + 1,
                          !.L = q.L - 1],
          val |-> q.Data[q.H],
          ok |-> TRUE]

\* p.peek(): the values returned; the queue is not written.
peek(q) ==
    IF q.L = 0
    THEN [q |-> q, val |-> Nil, ok |-> FALSE]
    ELSE [q |-> q, val |-> q.Data[q.H], ok |-> TRUE]

\* p.isFull()
isFull(q) == q.L = q.Size

\* p.fill(item): append until append returns false.
RECURSIVE fill(_, _)
fill(q, item) ==
    IF ~append(q, item).ok THEN q ELSE fill(append(q, item).q, item)

(***************************************************************************)
(* The state machine                                                       *)
(***************************************************************************)
VARIABLES
    plan,       \* the ProjectPlan node
    required,   \* the argument of the latest PruneColumns call
    forwarded,  \* the list that call handed to the children
    err,        \* the error that call returned ("" for nil)
    last,       \* the latest method called on the plan
    again,      \* the latest call repeats the PruneColumns call before it
    rq,         \* the ringqueue
    call        \* the latest call on the ringqueue: method, argument, results

vars == <<plan, required, forwarded, err, last, again, rq, call>>

\* The variables of the plan and of the queue.
planVars == <<plan, required, forwarded, err, last, again>>
queueVars == <<rq, call>>

\* A queue just created by newRingqueue(size), nothing called on it yet.
Created(size) ==
    /\ rq = newRingqueue(size)
    /\ call = [op |-> "new", arg |-> Nil, val |-> Nil, ok |-> FALSE]

\* The columns of the leaf below the projection.
LeafCols == {"a", "b", "c", "secret"}

Leaf(cols) == [cols |-> cols, kept |-> cols]

\* The settings a plan is built with: flags, limit and the child below it.
Setups ==
    { [isAggregate |-> FALSE, sendMeta |-> FALSE, sendNil |-> FALSE,
       enableLimit |-> FALSE, limitCount |-> 0,
       children |-> <<Leaf(LeafCols)>>],
      [isAggregate |-> TRUE, sendMeta |-> TRUE, sendNil |-> TRUE,
       enableLimit |-> TRUE, limitCount |-> 1,
       children |-> <<Leaf(LeafCols \cup {"z"})>>] }

\* The struct literal ProjectPlan{fields: ..., ...} before Init.
Literal(fs, setup) ==
    [ planType         |-> "",
      children         |-> setup.children,
      info             |-> "",
      isAggregate      |-> setup.isAggregate,
      allWildcard      |-> FALSE,
      sendMeta         |-> setup.sendMeta,
      sendNil          |-> setup.sendNil,
      fields           |-> fs,
      fieldLen         |-> 0,
      colNames         |-> <<>>,
      exceptNames      |-> <<>>,
      wildcardEmitters |-> <<>>,
      aliasFields      |-> <<>>,
      exprFields       |-> <<>>,
      enableLimit      |-> setup.enableLimit,
      limitCount       |-> setup.limitCount ]

\* A plan built from one of `lists`, before any method is called on it.
Built(lists) ==
    /\ \E fs \in lists, setup \in Setups : plan = Literal(fs, setup)
    /\ required = <<>>
    /\ forwarded = <<>>
    /\ err = ""
    /\ last = "new"
    /\ again = FALSE
    /\ Created(0)

Init == Built(PrunedFieldLists)

\* Construction over every field list.
InitAnyFields == Built(FieldLists)

\* ProjectPlan{...}.Init(), called once on the literal.
ProjectPlanInit ==
    /\ plan.planType = ""
    /\ plan' = InitResult(plan)
    /\ last' = "Init"
    /\ again' = FALSE
    /\ UNCHANGED <<required, forwarded, err>>
    /\ UNCHANGED queueVars

\* BuildExplainInfo clearing enableLimit once the limit is printed.
ExplainedResettingLimit(p) ==
    [p EXCEPT !.info = ExplainInfo(p), !.enableLimit = FALSE]

\* The plan after p.BuildExplainInfo().
Explained(p) == [p EXCEPT !.info = ExplainInfo(p)]

BuildExplainInfo ==
    /\ plan' = Explained(plan)
    /\ last' = "BuildExplainInfo"
    /\ again' = FALSE
    /\ UNCHANGED <<required, forwarded, err>>
    /\ UNCHANGED queueVars

\* The required columns as invisible fields of the plan.
AsInvisibleFields(fields) == [i \in 1..Len(fields) |-> Field("", fields[i], TRUE)]

\* PruneColumns keeping the caller's requirement in p.fields.
PruneColumnsRecording(fields) ==
    LET out == BasePrune(plan.children, Forwarded(plan, fields))
    IN  /\ plan.planType = "PROJECT"
        /\ required' = fields
        /\ forwarded' = Forwarded(plan, fields)
        /\ plan' = [plan EXCEPT !.children = out.children,
                                !.fields = @ \o AsInvisibleFields(fields)]
        /\ err' = out.err
        /\ again' = (last = "PruneColumns" /\ required = fields)
        /\ last' = "PruneColumns"
        /\ UNCHANGED queueVars

\* p.PruneColumns(fields) on an initialised plan.
PruneColumns(fields) ==
    LET out == BasePrune(plan.children, Forwarded(plan, fields))
    IN  /\ plan.planType = "PROJECT"
        /\ required' = fields
        /\ forwarded' = Forwarded(plan, fields)
        /\ plan' = [plan EXCEPT !.children = out.children]
        /\ err' = out.err
        /\ again' = (last = "PruneColumns" /\ required = fields)
        /\ last' = "PruneColumns"
        /\ UNCHANGED queueVars

Next ==
    \/ ProjectPlanInit
    \/ BuildExplainInfo
    \/ \E fields \in ReqLists : PruneColumns(fields)

\* The plan through construction, explanation and pruning.
Spec == Init /\ [][Next]_vars

NextConstruction ==
    \/ ProjectPlanInit
    \/ BuildExplainInfo

\* Construction and explanation alone, over every field list.
SpecInit == InitAnyFields /\ [][NextConstruction]_vars

\* A queue of any size up to MaxSize, beside a plan nothing is called on.
InitQueue ==
    /\ plan = Literal(<<>>, CHOOSE setup \in Setups : ~setup.enableLimit)
    /\ required = <<>>
    /\ forwarded = <<>>
    /\ err = ""
    /\ last = "new"
    /\ again = FALSE
    /\ \E size \in 0..MaxSize : Created(size)

DoAppend(item) ==
    /\ rq' = append(rq, item).q
    /\ call' = [op |-> "append", arg |-> item, val |-> Nil, ok |-> append(rq, item).ok]
    /\ UNCHANGED planVars

DoFetch ==
    /\ rq' = fetch(rq).q
    /\ call' = [op |-> "fetch", arg |-> Nil, val |-> fetch(rq).val, ok |-> fetch(rq).ok]
    /\ UNCHANGED planVars

DoPeek ==
    /\ rq' = peek(rq).q
    /\ call' = [op |-> "peek", arg |-> Nil, val |-> peek(rq).val, ok |-> peek(rq).ok]
    /\ UNCHANGED planVars

DoIsFull ==
    /\ rq' = rq
    /\ call' = [op |-> "isFull", arg |-> Nil, val |-> Nil, ok |-> isFull(rq)]
    /\ UNCHANGED planVars

DoFill(item) ==
    /\ rq' = fill(rq, item)
    /\ call' = [op |-> "fill", arg |-> item, val |-> Nil, ok |-> FALSE]
    /\ UNCHANGED planVars

NextQueue ==
    \/ \E item \in Items : DoAppend(item)
    \/ DoFetch
    \/ DoPeek
    \/ DoIsFull
    \/ \E item \in Items : DoFill(item)

\* The ringqueue through any sequence of its methods.
SpecQueue == InitQueue /\ [][NextQueue]_vars

(***************************************************************************)
(* Properties of Init                                                      *)
(***************************************************************************)
Inited == plan.planType = "PROJECT"

\* The receiver as the loop of Init finds it: nothing classified yet.
Blank(p) ==
    [p EXCEPT !.allWildcard = FALSE, !.wildcardEmitters = <<>>, !.colNames = <<>>,
              !.exceptNames = <<>>, !.aliasFields = <<>>, !.exprFields = <<>>]

\* The plan of the loop after its first k fields.
After(k) == InitFields(Blank(plan), SubSeq(plan.fields, 1, k))

Classes(p) ==
    <<p.allWildcard, p.exceptNames, p.wildcardEmitters, p.colNames, p.aliasFields,
      p.exprFields>>

IsAliased(f) == f.AName # ""
IsWildcard(f) == f.Expr.kind = "Wildcard"
IsStreamWildcard(f) == f.Expr.kind = "FieldRef" /\ f.Expr.Name = "*"
IsColumn(f) == f.Expr.kind = "FieldRef" /\ f.Expr.Name # "*"
IsComputed(f) == f.Expr.kind \notin {"FieldRef", "Wildcard"}

\* The five ways an iteration records field f, taking the plan from b to a.
RecWildcard(b, a, f) ==
    /\ IsWildcard(f)
    /\ Classes(a) = Classes([b EXCEPT !.allWildcard = TRUE,
                                      !.exceptNames = f.Expr.Except,
                                      !.aliasFields = @ \o f.Expr.Replace])
RecEmitter(b, a, f) ==
    /\ IsStreamWildcard(f)
    /\ f.Expr.StreamName \in DOMAIN a.wildcardEmitters
    /\ a.wildcardEmitters[f.Expr.StreamName]
    /\ Classes(a) = Classes([b EXCEPT !.wildcardEmitters =
                                          (f.Expr.StreamName :> TRUE) @@ @])
RecColumn(b, a, f) ==
    /\ IsColumn(f)
    /\ Classes(a) = Classes([b EXCEPT !.colNames =
                                          Append(@, <<f.Expr.Name, f.Expr.StreamName>>)])
RecAlias(b, a, f) ==
    Classes(a) = Classes([b EXCEPT !.aliasFields = Append(@, f)])
RecExpr(b, a, f) ==
    Classes(a) = Classes([b EXCEPT !.exprFields = Append(@, f)])

\* The number of classes the k-th field of the plan is recorded in.
ClassCount(k) ==
    LET b == After(k - 1)
        a == After(k)
        f == plan.fields[k]
    IN  Cardinality({c \in {"wildcard", "emitter", "column", "alias", "expr"} :
            CASE c = "wildcard" -> RecWildcard(b, a, f)
              [] c = "emitter" -> RecEmitter(b, a, f)
              [] c = "column" -> RecColumn(b, a, f)
              [] c = "alias" -> RecAlias(b, a, f)
              [] OTHER -> RecExpr(b, a, f)})

\* An unaliased reference to a named column that is marked invisible.
IsHiddenColumn(f) == ~IsAliased(f) /\ IsColumn(f) /\ f.Invisible

\* C1 as stated: after Init every field of the list is recorded in exactly one
\* of the five classes.
C1_Original ==
    Inited => \A k \in 1..Len(plan.fields) : ClassCount(k) = 1

\* C1 amended: after Init the classes hold what the loop built, every field
\* other than an unaliased invisible column reference is recorded in exactly
\* one of the five classes, and an unaliased invisible column reference is
\* recorded in none.
C1_Totality ==
    Inited =>
        /\ Classes(plan) = Classes(After(Len(plan.fields)))
        /\ \A k \in 1..Len(plan.fields) :
              ClassCount(k) = (IF IsHiddenColumn(plan.fields[k]) THEN 0 ELSE 1)

\* A plan initialised from a list holding an invisible column and an aliased
\* computed field.
C1_Witness ==
    /\ last = "Init"
    /\ Len(plan.fields) = 3
    /\ \E k \in 1..3 : IsHiddenColumn(plan.fields[k])
    /\ \E k \in 1..3 : IsAliased(plan.fields[k]) /\ IsComputed(plan.fields[k])
    /\ \E k \in 1..3 : ~IsAliased(plan.fields[k]) /\ IsWildcard(plan.fields[k])

FieldA == Field("", FieldRef("a", ""), FALSE)
FieldB == Field("", FieldRef("b", ""), FALSE)
FieldC == Field("", FieldRef("c", ""), FALSE)
FieldBAsC == Field("c", FieldRef("b", ""), FALSE)
FieldUpperAAsU == Field("u", UpperA, FALSE)

\* The unaliased wildcards of the list that carry REPLACE fields.
HasReplace(fs) ==
    \E k \in 1..Len(fs) :
        ~IsAliased(fs[k]) /\ IsWildcard(fs[k]) /\ fs[k].Expr.Replace # <<>>

\* C8: every aliased field is appended to aliasFields, in declaration order,
\* and changes no other class, whatever its expression; [a, b AS c] gives
\* colNames = [(a, "")], aliasFields = [b AS c], exprFields = [] and
\* allWildcard = FALSE.
C8_AliasPrecedence ==
    Inited =>
        /\ Classes(plan) = Classes(After(Len(plan.fields)))
        /\ \A k \in 1..Len(plan.fields) :
              IsAliased(plan.fields[k]) =>
                  RecAlias(After(k - 1), After(k), plan.fields[k])
        /\ ~HasReplace(plan.fields) =>
              plan.aliasFields = SelectSeq(plan.fields, IsAliased)
        /\ (\A k \in 1..Len(plan.fields) : IsAliased(plan.fields[k])) =>
              /\ ~plan.allWildcard
              /\ plan.exceptNames = <<>>
              /\ DOMAIN plan.wildcardEmitters = {}
              /\ plan.colNames = <<>>
              /\ plan.exprFields = <<>>
        /\ plan.fields = <<FieldA, FieldBAsC>> =>
              /\ plan.colNames = << <<"a", "">> >>
              /\ plan.aliasFields = <<FieldBAsC>>
              /\ plan.exprFields = <<>>
              /\ ~plan.allWildcard

\* A plan initialised from an aliased wildcard, an aliased stream wildcard
\* and an aliased computed field.
C8_Witness ==
    /\ last = "Init"
    /\ Len(plan.fields) = 3
    /\ \A k \in 1..3 : IsAliased(plan.fields[k])
    /\ IsWildcard(plan.fields[1])
    /\ IsStreamWildcard(plan.fields[2])
    /\ IsComputed(plan.fields[3])

IsUnaliasedComputed(f) == ~IsAliased(f) /\ IsComputed(f)

\* C9 as stated: exprFields holds every field whose expression is neither a
\* column reference nor a wildcard, and [UPPER(a) AS u] gives
\* exprFields = [UPPER(a) AS u].
C9_Original ==
    Inited =>
        /\ \A k \in 1..Len(plan.fields) :
              IsComputed(plan.fields[k]) => plan.fields[k] \in Range(plan.exprFields)
        /\ plan.fields = <<FieldUpperAAsU>> => plan.exprFields = <<FieldUpperAAsU>>

\* C9 amended: exprFields is the list, in declaration order, of the unaliased
\* fields whose expression is neither a field reference nor a wildcard; an
\* aliased computed field is in aliasFields only, so [UPPER(a) AS u] gives
\* exprFields = [] and aliasFields = [UPPER(a) AS u].
C9_ExprFields ==
    Inited =>
        /\ plan.exprFields = SelectSeq(plan.fields, IsUnaliasedComputed)
        /\ plan.fields = <<FieldUpperAAsU>> =>
              /\ plan.exprFields = <<>>
              /\ plan.aliasFields = <<FieldUpperAAsU>>

\* A plan initialised from an unaliased and an aliased computed field.
C9_Witness ==
    /\ last = "Init"
    /\ plan.fields = <<Field("", UpperA, FALSE), FieldUpperAAsU>>
    /\ plan.exprFields = <<Field("", UpperA, FALSE)>>

\* The positions of the unaliased wildcards of the list.
WildcardPositions(fs) == {k \in 1..Len(fs) : ~IsAliased(fs[k]) /\ IsWildcard(fs[k])}

LastOf(S) == CHOOSE k \in S : \A j \in S : j <= k

IsVisibleColumn(f) == ~IsAliased(f) /\ IsColumn(f) /\ ~f.Invisible

FieldStarExceptSecret == Field("", Wildcard(<<"secret">>, <<>>), FALSE)

\* C10 as stated: for each unaliased wildcard of the list allWildcard is true,
\* exceptNames contains its EXCEPT names and aliasFields its REPLACE fields,
\* also with more than one wildcard; the wildcard adds nothing to colNames.
C10_Original ==
    Inited =>
        /\ \A k \in WildcardPositions(plan.fields) :
              /\ plan.allWildcard
              /\ Range(plan.fields[k].Expr.Except) \subseteq Range(plan.exceptNames)
              /\ Range(plan.fields[k].Expr.Replace) \subseteq Range(plan.aliasFields)
        /\ Len(plan.colNames) = Len(SelectSeq(plan.fields, IsVisibleColumn))
        /\ plan.fields = <<FieldStarExceptSecret>> =>
              /\ plan.allWildcard
              /\ plan.exceptNames = <<"secret">>
              /\ plan.colNames = <<>>

\* C10 amended: with an unaliased wildcard in the list allWildcard is true,
\* every such wildcard's REPLACE fields are in aliasFields, and exceptNames is
\* the EXCEPT list of the last such wildcard alone (an earlier wildcard's
\* EXCEPT list is overwritten); the wildcards add nothing to colNames.
C10_Wildcard ==
    Inited =>
        /\ plan.allWildcard = (WildcardPositions(plan.fields) # {})
        /\ \A k \in WildcardPositions(plan.fields) :
              Range(plan.fields[k].Expr.Replace) \subseteq Range(plan.aliasFields)
        /\ plan.exceptNames =
              (IF WildcardPositions(plan.fields) = {} THEN <<>>
               ELSE plan.fields[LastOf(WildcardPositions(plan.fields))].Expr.Except)
        /\ Len(plan.colNames) = Len(SelectSeq(plan.fields, IsVisibleColumn))
        /\ plan.fields = <<FieldStarExceptSecret>> =>
              /\ plan.allWildcard
              /\ plan.exceptNames = <<"secret">>
              /\ plan.colNames = <<>>

\* A plan initialised from two wildcards, the first with an EXCEPT list and
\* the second with a REPLACE field.
C10_Witness ==
    /\ last = "Init"
    /\ Len(plan.fields) >= 2
    /\ plan.fields[1] = FieldStarExceptSecret
    /\ ~IsAliased(plan.fields[2]) /\ IsWildcard(plan.fields[2])
    /\ plan.fields[2].Expr.Replace # <<>>
    /\ plan.exceptNames = <<>>

IsUnaliasedStreamWildcard(f) == ~IsAliased(f) /\ IsStreamWildcard(f)

\* The (name, streamQualifier) pairs of the references of fs.
ColumnPairs(fs) == [i \in 1..Len(fs) |-> <<fs[i].Expr.Name, fs[i].Expr.StreamName>>]

FieldT1Star == Field("", FieldRef("*", "t1"), FALSE)

\* C11: after Init colNames is, in declaration order, the (name, stream) pairs
\* of the unaliased visible references to a named column, an invisible column
\* being left out; an unaliased `stream.*` adds nothing to colNames and sets
\* wildcardEmitters[stream] = TRUE, so [t1.*] gives wildcardEmitters =
\* {t1: TRUE} and colNames = [].
C11_ColNames ==
    Inited =>
        /\ plan.colNames = ColumnPairs(SelectSeq(plan.fields, IsVisibleColumn))
        /\ DOMAIN plan.wildcardEmitters =
              {plan.fields[k].Expr.StreamName :
                  k \in {j \in 1..Len(plan.fields) :
                            IsUnaliasedStreamWildcard(plan.fields[j])}}
        /\ \A st \in DOMAIN plan.wildcardEmitters : plan.wildcardEmitters[st] = TRUE
        /\ plan.fields = <<FieldT1Star>> =>
              /\ plan.wildcardEmitters = ("t1" :> TRUE)
              /\ plan.colNames = <<>>

\* A plan initialised from an invisible column, a stream wildcard and a
\* qualified column.
C11_Witness ==
    /\ last = "Init"
    /\ plan.fields = <<Field("", FieldRef("a", ""), TRUE), FieldT1Star,
                       Field("", FieldRef("a", "t1"), FALSE)>>
    /\ plan.colNames = << <<"a", "t1">> >>
    /\ plan.wildcardEmitters = ("t1" :> TRUE)

(***************************************************************************)
(* Properties of the description                                           *)
(***************************************************************************)
HasExpr(f) == f.Expr # NilExpr

RECURSIVE Joined(_)
\* The textual forms of the expressions of fs, separated by ", ".
Joined(fs) ==
    IF fs = <<>> THEN ""
    ELSE ExprString(Head(fs).Expr) \o (IF Len(fs) > 1 THEN ", " ELSE "")
         \o Joined(Tail(fs))

LimitSuffix(p) == IF p.enableLimit THEN ", Limit:" \o Itoa(p.limitCount) ELSE ""

\* C12, for a plan that has fields: the description is "Fields:[ ", the
\* textual forms of the field expressions in declaration order separated by
\* ", " with no separator after the last printed one, " ]", then
\* ", Limit:<limitCount>" exactly when enableLimit is set; also when a field,
\* the last one included, has no expression.
C12_ExplainFormat ==
    (last = "BuildExplainInfo" /\ plan.fields # <<>>) =>
        plan.info = "Fields:[ " \o Joined(SelectSeq(plan.fields, HasExpr)) \o " ]"
                    \o LimitSuffix(plan)

(***************************************************************************)
(* Properties of PruneColumns                                              *)
(***************************************************************************)
Pruned == last = "PruneColumns"

RECURSIVE ColumnsOf(_)
\* The columns an expression refers to, REPLACE fields of a wildcard included.
ColumnsOf(e) ==
    CASE e.kind = "FieldRef" -> IF e.Name = "*" THEN {} ELSE {e}
      [] e.kind = "Call" -> UNION {ColumnsOf(e.Args[i]) : i \in 1..Len(e.Args)}
      [] e.kind = "Wildcard" ->
            UNION {ColumnsOf(e.Replace[i].Expr) : i \in 1..Len(e.Replace)}
      [] OTHER -> {}

ColumnsOfFields(fs) == UNION {ColumnsOf(fs[i].Expr) : i \in 1..Len(fs)}

\* C2: the list forwarded to the children holds every element of the caller's
\* list and every column the plan's fields, exprFields and aliasFields refer
\* to; for [UPPER(a) AS u] it holds `a` even when the caller asked for nothing.
C2_Soundness ==
    Pruned =>
        /\ Range(required) \subseteq Range(forwarded)
        /\ ColumnsOfFields(plan.fields) \subseteq Range(forwarded)
        /\ ColumnsOfFields(plan.exprFields) \subseteq Range(forwarded)
        /\ ColumnsOfFields(plan.aliasFields) \subseteq Range(forwarded)
        /\ plan.fields = <<FieldUpperAAsU>> => FieldRef("a", "") \in Range(forwarded)

\* [UPPER(a) AS u] pruned with an empty requirement.
C2_Witness ==
    /\ Pruned
    /\ plan.fields = <<FieldUpperAAsU>>
    /\ required = <<>>
    /\ forwarded = <<FieldRef("a", "")>>

\* [a, b, c] pruned with the requirement [b].
PlainABCRequiringB ==
    /\ Pruned
    /\ plan.fields = <<FieldA, FieldB, FieldC>>
    /\ required = <<FieldRef("b", "")>>

\* C3 as stated: pruning [a, b, c] with the requirement [b] forwards exactly
\* {b} to the child.
C3_Original ==
    PlainABCRequiringB => Range(forwarded) = {FieldRef("b", "")}

\* C3 amended: pruning [a, b, c] with the requirement [b] forwards
\* [b, a, b, c]: the caller's b followed by the plan's own plain columns, a
\* and c included.
C3_PlainColumnsForwarded ==
    PlainABCRequiringB =>
        forwarded = <<FieldRef("b", ""), FieldRef("a", ""), FieldRef("b", ""),
                      FieldRef("c", "")>>

C3_Witness ==
    /\ PlainABCRequiringB
    /\ err = ""
    /\ \A i \in 1..Len(plan.children) : plan.children[i].kept = {"a", "b", "c"}

\* C4: a PruneColumns call that repeats the call before it, with the same
\* requirement list, changes nothing of the plan and forwards the same list.
C4_Idempotence ==
    [][again' => (plan' = plan /\ forwarded' = forwarded /\ err' = err)]_vars

\* A repeated call with a requirement, on a plan with fields of its own.
C4_Witness ==
    /\ again
    /\ required # <<>>
    /\ Len(forwarded) > Len(required)

\* The list holds an unaliased `*` without an EXCEPT list.
HasBareWildcard(fs) ==
    \E k \in 1..Len(fs) :
        ~IsAliased(fs[k]) /\ IsWildcard(fs[k]) /\ fs[k].Expr.Except = <<>>

\* C5: a plan whose allWildcard comes from an unaliased `*` without EXCEPT
\* forwards a wildcard without EXCEPT, whatever the caller required, and its
\* children keep all of their columns.
C5_WildcardConservatism ==
    (Pruned /\ HasBareWildcard(plan.fields)) =>
        /\ plan.allWildcard
        /\ \E i \in 1..Len(forwarded) :
              forwarded[i].kind = "Wildcard" /\ forwarded[i].Except = <<>>
        /\ \A i \in 1..Len(plan.children) :
              plan.children[i].kept = plan.children[i].cols

\* A wildcard plan pruned with the requirement [b] alone.
C5_Witness ==
    /\ Pruned
    /\ HasBareWildcard(plan.fields)
    /\ required = <<FieldRef("b", "")>>
    /\ err = ""

\* The plan produces no column called name: not in colNames, not an alias,
\* not referred to by exprFields or aliasFields, and no wildcard covers it.
NotProduced(p, name) ==
    /\ \A i \in 1..Len(p.colNames) : p.colNames[i][1] # name
    /\ \A i \in 1..Len(p.aliasFields) : p.aliasFields[i].AName # name
    /\ \A c \in ColumnsOfFields(p.aliasFields) \cup ColumnsOfFields(p.exprFields) :
          c.Name # name
    /\ ~p.allWildcard
    /\ DOMAIN p.wildcardEmitters = {}

\* C6: PruneColumns asked for a column the plan does not produce returns an
\* error naming that column.
C6_ColumnNotFound ==
    Pruned =>
        \A i \in 1..Len(required) :
            NotProduced(plan, required[i].Name) =>
                \E j \in 1..Len(required) :
                    /\ NotProduced(plan, required[j].Name)
                    /\ err = "column not found: " \o required[j].Name

(***************************************************************************)
(* Properties of BuildExplainInfo                                          *)
(***************************************************************************)
\* C7: a BuildExplainInfo call changes ExplainInfo.Info alone, whether it
\* comes before or after Init and PruneColumns, and a call made after an
\* earlier one stores the same description again.
C7_ExplainPurity ==
    [][last' = "BuildExplainInfo" =>
          /\ plan' = [plan EXCEPT !.info = plan'.info]
          /\ (last = "BuildExplainInfo" \/ plan.info # "") => plan'.info = plan.info
      ]_vars

\* A description built after Init and PruneColumns, with a limit printed.
C7_Witness ==
    /\ last = "BuildExplainInfo"
    /\ Inited
    /\ forwarded # <<>>
    /\ plan.enableLimit
    /\ plan.fields = <<FieldA, FieldUpperAAsU>>
    /\ plan.info = "Fields:[ a, UPPER(a) ], Limit:1"

(***************************************************************************)
(* Properties of the ringqueue                                             *)
(***************************************************************************)
\* The items the queue holds, oldest first: L entries of Data from H on.
Contents(q) == [i \in 1..q.L |-> q.Data[(q.H + i - 1) % q.Size]]

\* C13: append stores the item and returns true iff fewer than Size items are
\* held, and returns false changing nothing when the queue is full; fetch
\* returns (nil, false) changing nothing when the queue is empty and otherwise
\* removes and returns the oldest item, so items leave in the order they were
\* appended; peek returns what fetch would and changes nothing.
C13_Fifo ==
    [][/\ call'.op = "append" =>
            /\ call'.ok = (rq.L < rq.Size)
            /\ call'.ok => /\ Contents(rq') = Append(Contents(rq), call'.arg)
                           /\ rq'.Size = rq.Size
            /\ ~call'.ok => rq' = rq
       /\ call'.op = "fetch" =>
            IF rq.L = 0
            THEN /\ call'.val = Nil /\ ~call'.ok
                 /\ rq' = rq
            ELSE /\ call'.ok
                 /\ call'.val = Head(Contents(rq))
                 /\ Contents(rq') = Tail(Contents(rq))
                 /\ rq'.Size = rq.Size
       /\ call'.op = "peek" =>
            /\ rq' = rq
            /\ IF rq.L = 0
               THEN call'.val = Nil /\ ~call'.ok
               ELSE call'.ok /\ call'.val = Head(Contents(rq))
      ]_vars

\* A fetch from a queue whose contents wrap around the end of Data, taking
\* the older of two different items.
C13_Witness ==
    /\ call.op = "fetch"
    /\ call.ok
    /\ call.val = "x"
    /\ rq.T < rq.H
    /\ Contents(rq) = <<"y", "x">>

\* The bounds and the relation of the indices of a queue.
IndexInvariant(q) ==
    /\ 0 <= q.L /\ q.L <= q.Size
    /\ 0 <= q.H /\ q.H < q.Size
    /\ 0 <= q.T /\ q.T < q.Size
    /\ q.T = (q.H + q.L) % q.Size
    /\ (q.H = q.T) = (q.L = 0 \/ q.L = q.Size)
    /\ isFull(q) = (q.L = q.Size)

\* C14: in every state of a queue of size >= 1, 0 <= L <= Size, 0 <= H < Size,
\* 0 <= T < Size and T = (H + L) mod Size, so H = T exactly when the queue is
\* empty or full; isFull() is true exactly when L = Size; fill(item) ends
\* with the queue full, the items already queued ahead of the filled ones.
C14_Indices ==
    /\ [](rq.Size >= 1 =>
            /\ IndexInvariant(rq)
            /\ call.op = "isFull" => call.ok = (rq.L = rq.Size))
    /\ [][(call'.op = "fill" /\ rq.Size >= 1) =>
            /\ rq'.L = rq'.Size
            /\ rq'.Size = rq.Size
            /\ Contents(rq') =
                  Contents(rq) \o [i \in 1..(rq.Size - rq.L) |-> call'.arg]
         ]_vars

\* A fill of a queue that held one item, after its indices wrapped around.
C14_Witness ==
    /\ call.op = "fill"
    /\ call.arg = "y"
    /\ rq.Size = MaxSize
    /\ rq.H = rq.T /\ rq.H > 0
    /\ Head(Contents(rq)) = "x"
    /\ Contents(rq)[2] = "y"

====
